---- MODULE Spec2Model ----
(***************************************************************************)
(* Stein variational gradient descent samplers: the update step of the     *)
(* local sampler (abstract_stein_sampler.py) and the construction, merge   *)
(* and shuffle protocol of the MPI sampler (parallel_stein_sampler.py).    *)
(*                                                                         *)
(* One MPI process per rank 0..n_workers-1, rank 0 the master.  Every      *)
(* process runs the same program: a sequence of calls on its sampler.  A   *)
(* particle row is <<id, age>>: id names the row drawn at construction,    *)
(* age counts the updates applied to it.                                   *)
(***************************************************************************)
EXTENDS Integers, Sequences, FiniteSets

VARIABLES
    n_particles,   \* ParallelSteinSampler.n_particles
    n_workers,     \* comm.size
    n_shuffle,     \* ParallelSteinSampler.n_shuffle
    n_params,      \* width of the flattened particle matrix
    theta_given,   \* whether the constructor got an initial `theta`
    eager,         \* whether the transport buffers a standard-mode send
    prog,          \* the calls every process makes, in order
    pc,            \* position of each process
    theta,         \* sampler.theta of each process (rows of the flat matrix)
    n_iters,       \* sampler.gd.n_iters of each process
    k,             \* number of calls each process has returned from
    err,           \* exception raised in each process, "none" if none
    ret,           \* value returned by the last call of each process
    theta_array,   \* master's local `theta_array` in merge / shuffle
    loop_i,        \* master's loop variable `i` in merge / shuffle
    assign,        \* master's local `assign` in shuffle
    up,            \* up[f]: messages from follower f to rank 0, in order
    down,          \* down[f]: messages from rank 0 to follower f, in order
    preH,          \* history: per process, rows flattened at each merge entry
    postH,         \* history: per process, rows held at each collective's end
    mergedH,       \* history: matrices the master's merge loop produced
    grads_shape,   \* shape of the gradient matrix of the last update call
    phi,           \* perturbation handed to gd.update by the last update call
    crashed        \* ranks whose process has died

vars == <<n_particles, n_workers, n_shuffle, n_params, theta_given, eager,
          prog, pc, theta, n_iters, k, err, ret, theta_array, loop_i, assign,
          up, down, preH, postH, mergedH, grads_shape, phi, crashed>>

static == <<n_particles, n_workers, n_shuffle, n_params, theta_given, eager,
            prog>>

-----------------------------------------------------------------------------
(* Bounds of the model *)

MaxCalls == 2
MaxShuffle == 2
MaxDim == 3

\* (n_particles, comm.size) pairs explored
Configs == {<<2, 1>>, <<2, 2>>, <<4, 2>>, <<3, 2>>, <<3, 3>>, <<4, 3>>}

Ops == {"train", "merge", "fpd"}

\* norms of the perturbation explored when update_particles is called alone
PhiNorms == {0, 1, 9, 10, 11, 25, 1000}

\* norms of the perturbation explored in train_on_batch
BatchNorms == {9, 25}

Programs == UNION {[1..n -> Ops] : n \in 1..MaxCalls}

-----------------------------------------------------------------------------
(* Helpers *)

Ranks == 0..(n_workers - 1)
Followers == 1..(n_workers - 1)

Min(a, b) == IF a < b THEN a ELSE b
Max(a, b) == IF a > b THEN a ELSE b

Range(s) == {s[i] : i \in DOMAIN s}

Count(s, x) == Cardinality({i \in DOMAIN s : s[i] = x})

\* s and t hold the same rows with the same multiplicities
SameRows(s, t) ==
    /\ Len(s) = Len(t)
    /\ \A x \in Range(s) \cup Range(t) : Count(s, x) = Count(t, x)

RECURSIVE ConcatAll(_, _)
\* f[0] \o f[1] \o ... \o f[n]
ConcatAll(f, n) == IF n < 0 THEN <<>> ELSE ConcatAll(f, n - 1) \o f[n]

-----------------------------------------------------------------------------
(* parallel_stein_sampler.py: pure parts *)

is_master(rank) == rank = 0

particles_per_worker == n_particles \div n_workers

\* variant: the check raises on every rank
RaisesValueError_all_ranks(rank) == n_particles % n_workers # 0

\* the constructor's divisibility check
RaisesValueError(rank) == n_particles % n_workers # 0 /\ rank = 0

\* variant: x[0:n], the offset of the rank left out
Slice_no_offset(x, idx, n) ==
    [i \in 1..Max(0, Min(n, Len(x))) |-> x[i]]

\* x[idx:idx+n] (Python slicing clamps to the length of x)
Slice(x, idx, n) ==
    [i \in 1..Max(0, Min(n, Len(x) - idx)) |-> x[idx + i]]

\* the `theta` argument: n_particles rows
GlobalTheta == [i \in 1..n_particles |-> <<i, 0>>]

\* rows a fresh SteinSampler draws from the standard normal
FreshTheta(rank) ==
    [i \in 1..particles_per_worker |->
        <<n_particles + rank * particles_per_worker + i, 0>>]

\* the particle set the constructor hands to the local sampler
InitialTheta(rank) ==
    IF theta_given
    THEN Slice(GlobalTheta, rank * particles_per_worker, particles_per_worker)
    ELSE FreshTheta(rank)

\* variant: the counter as it was before the local step
ShuffleDue_before_step(iters) == (iters - 1) % n_shuffle = 0

\* train_on_batch: shuffle when the iteration counter is a multiple
ShuffleDue(iters) == iters % n_shuffle = 0

\* variant: range(1, self.n_workers - 1)
MergeLoopDone_short(i) == i >= n_workers - 1

\* merge: for i in range(1, self.n_workers) has run out
MergeLoopDone(i) == i >= n_workers

\* variant: range(1, self.n_workers - 1)
ScatterLoopDone_short(i) == i >= n_workers - 1

\* shuffle: for i in range(1, self.n_workers) has run out
ScatterLoopDone(i) == i >= n_workers

\* variant: the received block replaces the matrix
vstack_overwrite(a, b) == b

\* np.vstack((a, b))
vstack(a, b) == a \o b

\* variant: n draws from 0..n-1 with replacement
permutation_with_repeats(n) == [1..n -> 0..(n - 1)]

\* np.random.permutation(n): the arrays it can return (values 0..n-1)
permutation(n) ==
    {p \in [1..n -> 0..(n - 1)] : \A i, j \in 1..n : i # j => p[i] # p[j]}

\* np.reshape(a, (rows, cols)) fails unless rows * cols = len(a)
ReshapeOk(a, rows, cols) == rows * cols = Len(a)

\* variant: every row of the reshaped array is its first row
ReshapeRow_first(a, cols, r) == [j \in 1..cols |-> a[j]]

\* np.reshape(a, (rows, cols))[r], r counted from 0
ReshapeRow(a, cols, r) == [j \in 1..cols |-> a[r * cols + j]]

\* theta_array[idx] raises IndexError unless every index is a row of arr
IndexOk(arr, idx) == \A j \in DOMAIN idx : idx[j] < Len(arr)

\* theta_array[idx]: the rows of theta_array at the (0-based) indices idx
Take(arr, idx) == [j \in 1..Len(idx) |-> arr[idx[j] + 1]]

\* values a call returns
None == <<"None">>
Dict(rows) == <<"dict", rows>>
Dist(n) == <<"dist", [i \in 1..n |-> 0]>>

\* ParallelSteinSampler never sets self.theta (no super().__init__ call)
HasThetaAttribute == FALSE

-----------------------------------------------------------------------------
(* abstract_stein_sampler.py: update_particles on shapes *)

\* shape of convert_dictionary_to_array(self.theta)[0]
FlatShape(th) == <<Len(th), n_params>>

\* numpy broadcasting of one dimension; 0 when the sizes do not broadcast
Broadcast(a, b) == IF a = b THEN a ELSE IF a = 1 THEN b ELSE IF b = 1 THEN a ELSE 0

\* shapes of K and dK from kernel_and_grad(theta_array)
KernelShapes(tshape) ==
    [K |-> <<tshape[1], tshape[1]>>, dK |-> <<tshape[1], tshape[2]>>]

\* gd.update(phi): same shape back, one more iteration counted
GdUpdate(it, shape) == [n_iters |-> it + 1, shape |-> shape]

\* what an operator yields when numpy raises ValueError
Raised == <<>>

\* compute_phi: shape of (K.dot(grads_array) + dK) / n_particles
compute_phi(tshape, gshape) ==
    LET ks == KernelShapes(tshape) IN
    IF ks.K[2] # gshape[1] THEN Raised
    ELSE IF Broadcast(ks.K[1], ks.dK[1]) = 0 THEN Raised
    ELSE IF Broadcast(gshape[2], ks.dK[2]) = 0 THEN Raised
    ELSE <<Broadcast(ks.K[1], ks.dK[1]), Broadcast(gshape[2], ks.dK[2])>>

\* theta_array += inc is legal: inc broadcasts to the shape of theta_array
InPlaceAddOk(tshape, ishape) ==
    /\ Broadcast(ishape[1], tshape[1]) = tshape[1]
    /\ Broadcast(ishape[2], tshape[2]) = tshape[2]

\* the bound of the clipping: 10. in `10. / max(10., norm)`
clip_norm == 10

\* variant: no clipping
clip_scale_none(norm) == <<1, 1>>

\* 10. / max(10., np.linalg.norm(phi)), as numerator and denominator
clip_scale(norm) == <<clip_norm, Max(clip_norm, norm)>>

\* phi *= scale: the norm before, and the norm after as a fraction
clip(norm) ==
    LET scale == clip_scale(norm) IN
    [raw |-> norm, num |-> norm * scale[1], den |-> scale[2]]

\* no perturbation handed over yet
NoPhi == [raw |-> 0, num |-> 0, den |-> 0]

\* every row moved by the increment
Moved(th) == [i \in DOMAIN th |-> <<th[i][1], th[i][2] + 1>>]

\* variant: the step strategy is invoked twice
update_particles_twice(th, it, gshape, norm, old) ==
    LET g == GdUpdate(GdUpdate(it, gshape).n_iters, gshape) IN
    [theta |-> Moved(th), n_iters |-> g.n_iters, err |-> "none",
     phi |-> clip(norm)]

\* update_particles(grads_array) on a sampler with rows th and counter it;
\* norm is the Euclidean norm of what compute_phi returns; old is the
\* perturbation the step strategy saw last
update_particles(th, it, gshape, norm, old) ==
    LET shape == compute_phi(FlatShape(th), gshape) IN
    IF shape = Raised
    THEN [theta |-> th, n_iters |-> it, err |-> "ValueError", phi |-> old]
    ELSE LET g == GdUpdate(it, shape) IN
         IF ~InPlaceAddOk(FlatShape(th), g.shape)
         THEN [theta |-> th, n_iters |-> g.n_iters, err |-> "ValueError",
               phi |-> clip(norm)]
         ELSE [theta |-> Moved(th), n_iters |-> g.n_iters, err |-> "none",
               phi |-> clip(norm)]

\* SteinSampler.train_on_batch: one gradient row per particle, then the update
LocalTrain(th, it, norm, old) ==
    update_particles(th, it, FlatShape(th), norm, old)

-----------------------------------------------------------------------------
(* Initial states *)

Init ==
    /\ \E c \in Configs : n_particles = c[1] /\ n_workers = c[2]
    /\ n_shuffle \in 1..MaxShuffle
    /\ n_params = MaxDim
    /\ theta_given \in BOOLEAN
    /\ eager \in BOOLEAN
    /\ prog \in Programs
    /\ pc = [w \in Ranks |-> "new"]
    /\ theta = [w \in Ranks |-> <<>>]
    /\ n_iters = [w \in Ranks |-> 0]
    /\ k = [w \in Ranks |-> 0]
    /\ err = [w \in Ranks |-> "none"]
    /\ ret = [w \in Ranks |-> None]
    /\ theta_array = <<>>
    /\ loop_i = 0
    /\ assign = <<>>
    /\ up = [f \in Followers |-> <<>>]
    /\ down = [f \in Followers |-> <<>>]
    /\ preH = [w \in Ranks |-> <<>>]
    /\ postH = [w \in Ranks |-> <<>>]
    /\ mergedH = <<>>
    /\ grads_shape = <<0, 0>>
    /\ phi = NoPhi
    /\ crashed = {}

-----------------------------------------------------------------------------
(* Actions *)

\* the call process w is about to make
CurrentOp(w) == prog[k[w] + 1]

CanCall(w, op) ==
    /\ w \notin crashed
    /\ pc[w] = "idle"
    /\ k[w] < Len(prog)
    /\ CurrentOp(w) = op

\* ParallelSteinSampler.__init__ on rank w
Construct(w) ==
    /\ w \notin crashed
    /\ pc[w] = "new"
    /\ IF RaisesValueError(w)
       THEN /\ pc' = [pc EXCEPT ![w] = "failed"]
            /\ err' = [err EXCEPT ![w] = "ValueError"]
            /\ theta' = theta
       ELSE /\ pc' = [pc EXCEPT ![w] = "idle"]
            /\ err' = err
            /\ theta' = [theta EXCEPT ![w] = InitialTheta(w)]
    /\ UNCHANGED <<static, n_iters, k, ret, theta_array, loop_i, assign, up,
                   down, preH, postH, mergedH, grads_shape, phi, crashed>>

\* variant: every call returns the dictionary of the caller's rows
Return_dict(w, v) ==
    /\ pc' = [pc EXCEPT ![w] = "idle"]
    /\ k' = [k EXCEPT ![w] = @ + 1]
    /\ ret' = [ret EXCEPT ![w] = Dict(theta[w])]

\* process w returns from its current call with value v
Return(w, v) ==
    /\ pc' = [pc EXCEPT ![w] = "idle"]
    /\ k' = [k EXCEPT ![w] = @ + 1]
    /\ ret' = [ret EXCEPT ![w] = v]

\* follower f after comm.send(theta_array, dest=0): merge() returns None;
\* shuffle() goes on to its receive, a direct caller of merge() returns
SendReturns(f) ==
    IF CurrentOp(f) = "train"
    THEN /\ pc' = [pc EXCEPT ![f] = "shuffle_recv"]
         /\ UNCHANGED <<k, ret, postH>>
    ELSE /\ Return(f, None)
         /\ postH' = [postH EXCEPT ![f] = Append(@, theta[f])]

\* merge(), up to its first blocking point, on rank w holding rows th
EnterMerge(w, th) ==
    /\ preH' = [preH EXCEPT ![w] = Append(@, [op |-> CurrentOp(w), rows |-> th])]
    /\ IF is_master(w)
       THEN /\ theta_array' = th
            /\ loop_i' = 1
            /\ pc' = [pc EXCEPT ![w] = "merge_recv"]
            /\ UNCHANGED <<up, k, ret, postH>>
       ELSE /\ up' = [up EXCEPT ![w] = Append(@, th)]
            /\ UNCHANGED <<theta_array, loop_i>>
            /\ IF eager
               THEN SendReturns(w)
               ELSE /\ pc' = [pc EXCEPT ![w] = "send"]
                    /\ UNCHANGED <<k, ret, postH>>

\* train_on_batch(batch_feed) on rank w: the local step, then the shuffle test
TrainOnBatch(w) ==
    /\ CanCall(w, "train")
    /\ \E norm \in BatchNorms :
       LET u == LocalTrain(theta[w], n_iters[w], norm, phi) IN
       /\ theta' = [theta EXCEPT ![w] = u.theta]
       /\ n_iters' = [n_iters EXCEPT ![w] = u.n_iters]
       /\ phi' = u.phi
       /\ grads_shape' = FlatShape(theta[w])
       /\ IF u.err # "none"
          THEN /\ pc' = [pc EXCEPT ![w] = "error"]
               /\ err' = [err EXCEPT ![w] = u.err]
               /\ UNCHANGED <<k, ret, theta_array, loop_i, up, preH, postH>>
          ELSE IF ShuffleDue(u.n_iters)
          THEN /\ EnterMerge(w, u.theta)
               /\ err' = err
          ELSE /\ Return(w, None)
               /\ UNCHANGED <<err, theta_array, loop_i, up, preH, postH>>
    /\ UNCHANGED <<static, assign, down, mergedH, crashed>>

\* a direct call of merge() on rank w
Merge(w) ==
    /\ CanCall(w, "merge")
    /\ EnterMerge(w, theta[w])
    /\ UNCHANGED <<static, theta, n_iters, err, assign, down, mergedH,
                   grads_shape, phi, crashed>>

\* function_posterior_distribution(func, feed_dict) on rank w, up to merge()
FunctionPosteriorDistribution(w) ==
    /\ CanCall(w, "fpd")
    /\ EnterMerge(w, theta[w])
    /\ UNCHANGED <<static, theta, n_iters, err, assign, down, mergedH,
                   grads_shape, phi, crashed>>

\* the master's comm.recv(source=MPI.ANY_SOURCE) in the merge loop
MergeRecv ==
    /\ 0 \notin crashed
    /\ pc[0] = "merge_recv"
    /\ ~MergeLoopDone(loop_i)
    /\ \E f \in Followers :
        /\ up[f] # <<>>
        /\ theta_array' = vstack(theta_array, Head(up[f]))
        /\ up' = [up EXCEPT ![f] = Tail(@)]
    /\ loop_i' = loop_i + 1
    /\ UNCHANGED <<static, pc, theta, n_iters, k, err, ret, assign, down,
                   preH, postH, mergedH, grads_shape, phi, crashed>>

\* the master after the merge loop: merge() returns into its caller
MergeDone ==
    /\ 0 \notin crashed
    /\ pc[0] = "merge_recv"
    /\ MergeLoopDone(loop_i)
    /\ mergedH' = Append(mergedH, theta_array)
    /\ CASE CurrentOp(0) = "merge" ->
              /\ Return(0, Dict(theta_array))
              /\ postH' = [postH EXCEPT ![0] = Append(@, theta[0])]
              /\ UNCHANGED <<err, assign, loop_i, theta_array>>
         [] CurrentOp(0) = "fpd" ->
              \* for i in range(n_particles): ... self.theta.items() ...
              IF n_particles > 0 /\ ~HasThetaAttribute
              THEN /\ pc' = [pc EXCEPT ![0] = "error"]
                   /\ err' = [err EXCEPT ![0] = "AttributeError"]
                   /\ UNCHANGED <<k, ret, postH, assign, loop_i, theta_array>>
              ELSE /\ Return(0, Dist(n_particles))
                   /\ postH' = [postH EXCEPT ![0] = Append(@, theta[0])]
                   /\ UNCHANGED <<err, assign, loop_i, theta_array>>
         [] CurrentOp(0) = "train" ->
              \E a \in permutation(n_particles) :
                IF ReshapeOk(a, n_workers, particles_per_worker)
                THEN /\ assign' = [r \in Ranks |->
                                     ReshapeRow(a, particles_per_worker, r)]
                     /\ loop_i' = 1
                     /\ pc' = [pc EXCEPT ![0] = "scatter"]
                     /\ UNCHANGED <<k, ret, err, postH, theta_array>>
                ELSE /\ pc' = [pc EXCEPT ![0] = "error"]
                     /\ err' = [err EXCEPT ![0] = "ValueError"]
                     /\ UNCHANGED <<k, ret, postH, assign, loop_i, theta_array>>
    /\ UNCHANGED <<static, theta, n_iters, up, down, preH, grads_shape, phi, crashed>>

\* an unbuffered comm.send(theta_array, dest=0) of follower f returns once
\* the master has received the block
SendDone(f) ==
    /\ f \notin crashed
    /\ pc[f] = "send"
    /\ up[f] = <<>>
    /\ SendReturns(f)
    /\ UNCHANGED <<static, theta, n_iters, err, theta_array, loop_i, assign,
                   up, down, preH, mergedH, grads_shape, phi, crashed>>

\* the master's earlier sends of this shuffle have returned
SendsReturned == eager \/ \A f \in Followers : down[f] = <<>>

\* the master's comm.send(theta_array[assign[i]], dest=i)
Scatter ==
    /\ 0 \notin crashed
    /\ pc[0] = "scatter"
    /\ ~ScatterLoopDone(loop_i)
    /\ SendsReturned
    /\ IF IndexOk(theta_array, assign[loop_i])
       THEN /\ down' = [down EXCEPT ![loop_i] =
                           Append(@, Take(theta_array, assign[loop_i]))]
            /\ loop_i' = loop_i + 1
            /\ UNCHANGED <<pc, err>>
       ELSE /\ pc' = [pc EXCEPT ![0] = "error"]
            /\ err' = [err EXCEPT ![0] = "IndexError"]
            /\ UNCHANGED <<down, loop_i>>
    /\ UNCHANGED <<static, theta, n_iters, k, ret, theta_array,
                   assign, up, preH, postH, mergedH, grads_shape, phi, crashed>>

\* the master keeps its own block: theta_array[assign[0]] becomes sampler.theta
ShuffleFinish ==
    /\ 0 \notin crashed
    /\ pc[0] = "scatter"
    /\ ScatterLoopDone(loop_i)
    /\ SendsReturned
    /\ IF IndexOk(theta_array, assign[0])
       THEN /\ theta' = [theta EXCEPT ![0] = Take(theta_array, assign[0])]
            /\ postH' = [postH EXCEPT ![0] = Append(@, theta'[0])]
            /\ Return(0, None)
            /\ err' = err
       ELSE /\ pc' = [pc EXCEPT ![0] = "error"]
            /\ err' = [err EXCEPT ![0] = "IndexError"]
            /\ UNCHANGED <<theta, postH, k, ret>>
    /\ UNCHANGED <<static, n_iters, theta_array, loop_i, assign, up,
                   down, preH, mergedH, grads_shape, phi, crashed>>

\* a follower's comm.recv(source=0): the block becomes sampler.theta
ShuffleRecv(f) ==
    /\ f \notin crashed
    /\ pc[f] = "shuffle_recv"
    /\ down[f] # <<>>
    /\ theta' = [theta EXCEPT ![f] = Head(down[f])]
    /\ down' = [down EXCEPT ![f] = Tail(@)]
    /\ postH' = [postH EXCEPT ![f] = Append(@, theta'[f])]
    /\ Return(f, None)
    /\ UNCHANGED <<static, n_iters, err, theta_array, loop_i, assign, up,
                   preH, mergedH, grads_shape, phi, crashed>>

Next ==
    \/ \E w \in Ranks : Construct(w)
    \/ \E w \in Ranks : TrainOnBatch(w)
    \/ \E w \in Ranks : Merge(w)
    \/ \E w \in Ranks : FunctionPosteriorDistribution(w)
    \/ MergeRecv
    \/ MergeDone
    \/ \E f \in Followers : SendDone(f)
    \/ Scatter
    \/ ShuffleFinish
    \/ \E f \in Followers : ShuffleRecv(f)

Spec == Init /\ [][Next]_vars

-----------------------------------------------------------------------------
(* Training runs: a divisible particle count, train_on_batch calls only *)

\* (the rows' origin plays no part in who waits for whom)
InitTrain ==
    /\ Init
    /\ ~theta_given
    /\ n_particles % n_workers = 0
    /\ \A c \in DOMAIN prog : prog[c] = "train"

NextTrain ==
    \/ \E w \in Ranks : Construct(w)
    \/ \E w \in Ranks : TrainOnBatch(w)
    \/ MergeRecv
    \/ MergeDone
    \/ \E f \in Followers : SendDone(f)
    \/ Scatter
    \/ ShuffleFinish
    \/ \E f \in Followers : ShuffleRecv(f)

\* every process is scheduled: a step that can be taken is not put off forever
SpecTrain == InitTrain /\ [][NextTrain]_vars /\ WF_vars(NextTrain)

-----------------------------------------------------------------------------
(* Fail-stop: one process may die at any point of its run *)

Crash(w) ==
    /\ crashed = {}
    /\ pc[w] \notin {"failed", "error"}
    /\ pc[w] = "idle" => k[w] < Len(prog)
    /\ crashed' = crashed \cup {w}
    /\ UNCHANGED <<static, pc, theta, n_iters, k, err, ret, theta_array,
                   loop_i, assign, up, down, preH, postH, mergedH,
                   grads_shape, phi>>

NextCrash ==
    \/ Next
    \/ \E w \in Ranks : Crash(w)

\* the rows' origin plays no part in who waits for whom
InitCrash == Init /\ ~theta_given

SpecCrash == InitCrash /\ [][NextCrash]_vars

-----------------------------------------------------------------------------
(* The local sampler alone: update_particles called with any gradient shape *)

Dims == 1..MaxDim

InitLocal ==
    /\ n_workers = 1
    /\ n_particles \in Dims
    /\ n_params \in Dims
    /\ n_shuffle = 1
    /\ theta_given = FALSE
    /\ eager = TRUE
    /\ prog = <<>>
    /\ pc = [w \in Ranks |-> "idle"]
    /\ theta = [w \in Ranks |-> FreshTheta(w)]
    /\ n_iters = [w \in Ranks |-> 0]
    /\ k = [w \in Ranks |-> 0]
    /\ err = [w \in Ranks |-> "none"]
    /\ ret = [w \in Ranks |-> None]
    /\ theta_array = <<>>
    /\ loop_i = 0
    /\ assign = <<>>
    /\ up = [f \in Followers |-> <<>>]
    /\ down = [f \in Followers |-> <<>>]
    /\ preH = [w \in Ranks |-> <<>>]
    /\ postH = [w \in Ranks |-> <<>>]
    /\ mergedH = <<>>
    /\ grads_shape = <<0, 0>>
    /\ phi = NoPhi
    /\ crashed = {}

\* sampler.update_particles(grads_array) with a gradient matrix of shape gshape
UpdateParticles(w, gshape, norm) ==
    /\ pc[w] = "idle"
    /\ k[w] < MaxCalls
    /\ LET u == update_particles(theta[w], n_iters[w], gshape, norm, phi) IN
       /\ theta' = [theta EXCEPT ![w] = u.theta]
       /\ phi' = u.phi
       /\ n_iters' = [n_iters EXCEPT ![w] = u.n_iters]
       /\ grads_shape' = gshape
       /\ IF u.err # "none"
          THEN /\ pc' = [pc EXCEPT ![w] = "error"]
               /\ err' = [err EXCEPT ![w] = u.err]
               /\ UNCHANGED <<k, ret>>
          ELSE /\ Return(w, None)
               /\ err' = err
    /\ UNCHANGED <<static, theta_array, loop_i, assign, up, down, preH, postH,
                   mergedH, crashed>>

NextLocal ==
    \E w \in Ranks : \E gshape \in Dims \X Dims : \E norm \in PhiNorms :
        UpdateParticles(w, gshape, norm)

SpecLocal == InitLocal /\ [][NextLocal]_vars

-----------------------------------------------------------------------------
(* Vocabulary of the properties *)

Divisible == n_particles % n_workers = 0

\* the rows of all processes, rank after rank
AllRows(h) == ConcatAll(h, n_workers - 1)

\* process w has returned from its j-th collective (merge, fpd or shuffle)
RoundDone(w, j) == Len(postH[w]) >= j

\* the j-th collective of process w is a shuffle
IsShuffle(w, j) == Len(preH[w]) >= j /\ preH[w][j].op = "train"

\* shuffles process w has returned from
ShufflesDone(w) ==
    Cardinality({j \in 1..Len(postH[w]) : preH[w][j].op = "train"})

\* train_on_batch calls process w has returned from
TrainCalls(w) == Cardinality({c \in 1..k[w] : prog[c] = "train"})

\* process w is inside shuffle()
InShuffle(w) ==
    /\ pc[w] \in {"merge_recv", "send", "scatter", "shuffle_recv"}
    /\ CurrentOp(w) = "train"

\* blocks of follower f the master has received so far
Received(f) == Len(preH[f]) - Len(up[f])

-----------------------------------------------------------------------------
(* C1 *)

\* C1 (as claimed): once every process has returned from a shuffle, the rows
\* held across all processes right after it are the rows held right before
\* it, with the same multiplicities, and every process holds
\* particles_per_worker rows.
C1_ShuffleInvariant ==
    \A j \in 1..Len(prog) :
        ((\A w \in Ranks : RoundDone(w, j)) /\ IsShuffle(0, j)) =>
            /\ SameRows(AllRows([w \in Ranks |-> postH[w][j]]),
                        AllRows([w \in Ranks |-> preH[w][j].rows]))
            /\ \A w \in Ranks : Len(postH[w][j]) = particles_per_worker

-----------------------------------------------------------------------------
(* C2 *)

\* every process has entered exactly one merge and the master has left its loop
SingleMergeDone ==
    /\ Len(mergedH) = 1
    /\ \A w \in Ranks : Len(preH[w]) = 1

\* C2: after a single merge executed by all processes, the master's matrix
\* has n_workers * particles_per_worker rows and holds exactly the rows the
\* processes flattened, whatever the order the followers' blocks arrived in.
C2_MergeInvariant ==
    SingleMergeDone =>
        /\ Len(mergedH[1]) = n_workers * particles_per_worker
        /\ SameRows(mergedH[1], AllRows([w \in Ranks |-> preH[w][1].rows]))

\* a single merge of three processes whose blocks arrived out of rank order
C2_Witness ==
    /\ SingleMergeDone
    /\ n_workers = 3
    /\ particles_per_worker > 0
    /\ mergedH[1] # AllRows([w \in Ranks |-> preH[w][1].rows])

-----------------------------------------------------------------------------
(* C3 *)

\* C3 (as claimed): whenever n_particles is not a multiple of comm.size, the
\* construction of the sampler raises, in every process that constructs it,
\* and a construction that raised has created no local sampler.
C3_ConstructionFails ==
    \A w \in Ranks :
        /\ (~Divisible /\ pc[w] # "new") =>
                (pc[w] = "failed" /\ err[w] = "ValueError")
        /\ pc[w] = "failed" => theta[w] = <<>>

-----------------------------------------------------------------------------
(* C4 *)

\* followers construct without error, owning floor(N/W) rows, and are never
\* told of the master's failure
FollowersUninformed ==
    \A f \in Followers :
        /\ pc[f] \notin {"failed", "error"}
        /\ err[f] = "none"
        /\ pc[f] # "new" => Len(theta[f]) = n_particles \div n_workers

\* C4 (as claimed): with an indivisible particle count only the master
\* raises; every follower constructs without error and never returns from
\* its first collective operation.
C4_FollowersBlockOnFirstCollective ==
    ~Divisible =>
        /\ FollowersUninformed
        /\ \A f \in Followers : postH[f] = <<>>

\* C4 (amended): with an indivisible particle count only the master raises;
\* every follower constructs without error and never returns from a
\* shuffle, nor from any collective when the transport does not buffer sends.
C4_FollowersBlockInFirstShuffle ==
    ~Divisible =>
        /\ FollowersUninformed
        /\ \A f \in Followers :
              /\ ShufflesDone(f) = 0
              /\ ~eager => postH[f] = <<>>

\* a follower waits for its shuffle block after the master's construction raised
C4_Witness ==
    /\ ~Divisible
    /\ pc[0] = "failed"
    /\ \E f \in Followers : pc[f] = "shuffle_recv" /\ down[f] = <<>>

-----------------------------------------------------------------------------
(* C5 *)

\* C5: a process enters shuffle() exactly when the iteration counter read
\* after the local step is a multiple of n_shuffle; a process that has
\* returned from t train_on_batch calls has counted t iterations and done
\* t \div n_shuffle shuffles.
C5_ShufflePeriod ==
    \A w \in Ranks :
        /\ pc[w] = "idle" =>
              /\ n_iters[w] = TrainCalls(w)
              /\ ShufflesDone(w) = TrainCalls(w) \div n_shuffle
        /\ InShuffle(w) =>
              /\ n_iters[w] = TrainCalls(w) + 1
              /\ n_iters[w] % n_shuffle = 0
              /\ ShufflesDone(w) = (n_iters[w] \div n_shuffle) - 1
        /\ (pc[w] = "idle" /\ k[w] > 0 /\ prog[k[w]] = "train"
              /\ n_iters[w] % n_shuffle = 0) =>
                 (Len(postH[w]) > 0 /\ preH[w][Len(postH[w])].op = "train")

\* two calls with period two: one shuffle, entered after the second call only
C5_Witness ==
    \E w \in Ranks :
        /\ pc[w] = "idle"
        /\ n_shuffle = 2
        /\ TrainCalls(w) = 2
        /\ ShufflesDone(w) = 1

-----------------------------------------------------------------------------
(* C6 *)

\* C6 (as claimed): function_posterior_distribution never raises; it returns
\* a vector of length n_particles on the master and None on a follower.
C6_FpdReturnsDist ==
    \A w \in Ranks :
        /\ pc[w] = "error" => CurrentOp(w) # "fpd"
        /\ (pc[w] = "idle" /\ k[w] > 0 /\ prog[k[w]] = "fpd") =>
              ret[w] = IF is_master(w) THEN Dist(n_particles) ELSE None

-----------------------------------------------------------------------------
(* C7 *)

\* blocks the master has sent to follower f
SentDown(f) == Len(down[f]) + ShufflesDone(f)

\* shuffles in which the master's scatter loop has passed follower f
ScatteredTo(f) ==
    ShufflesDone(0) + (IF pc[0] = "scatter" /\ loop_i > f THEN 1 ELSE 0)

\* C7: the master scatters only once it holds the merge block of every
\* follower for this shuffle; each shuffle puts exactly one block on the way
\* to each follower, which the follower takes with one receive while it
\* waits in the same shuffle; so no follower replaces its rows before the
\* merge is complete.
C7_StrictPairing ==
    /\ pc[0] = "scatter" =>
          \A f \in Followers : Received(f) >= Len(preH[0])
    /\ \A f \in Followers :
          /\ SentDown(f) = ScatteredTo(f)
          /\ Len(down[f]) <= 1
          /\ down[f] # <<>> => InShuffle(f)
          /\ \A j \in 1..Len(postH[f]) :
                IsShuffle(f, j) =>
                    /\ Len(mergedH) >= j
                    /\ \A g \in Followers : Received(g) >= j

\* the first follower already holds its new rows while the master still scatters
C7_Witness ==
    /\ n_workers = 3
    /\ pc[0] = "scatter"
    /\ loop_i = 2
    /\ ShufflesDone(1) = 1

-----------------------------------------------------------------------------
(* C8 *)

\* the master has put follower f's block of collective j on the way
ScatteredRound(f, j) ==
    /\ Len(preH[0]) >= j
    /\ \/ RoundDone(0, j)
       \/ pc[0] = "scatter" /\ Len(preH[0]) = j /\ loop_i > f

\* the master waits in a shuffle's merge for a follower that died before sending
StuckMaster ==
    /\ pc[0] = "merge_recv"
    /\ CurrentOp(0) = "train"
    /\ err[0] = "none"
    /\ \E f \in Followers \cap crashed : Len(preH[f]) < Len(preH[0])

\* follower f waits in a shuffle for a master that died before scattering
StuckFollower(f) ==
    /\ pc[f] \in {"send", "shuffle_recv"}
    /\ CurrentOp(f) = "train"
    /\ err[f] = "none"
    /\ 0 \in crashed
    /\ ~ScatteredRound(f, Len(preH[f]))

C8_NoReturn ==
    /\ \A j \in 1..Len(postH[0]) :
          IsShuffle(0, j) => \A f \in Followers : Len(preH[f]) >= j
    /\ pc[0] = "scatter" => \A f \in Followers : Len(preH[f]) >= Len(preH[0])
    /\ \A f \in Followers : \A j \in 1..Len(postH[f]) :
          IsShuffle(f, j) => ScatteredRound(f, j)

C8_StaysStuck ==
    /\ StuckMaster => StuckMaster'
    /\ \A f \in Followers : StuckFollower(f) => StuckFollower(f)'

\* C8: the master returns from a shuffle only if every follower sent its
\* merge block, a follower only if the master scattered; a process waiting
\* for a dead peer waits forever, with no timeout and no error raised.
C8_FailStop == []C8_NoReturn /\ [][C8_StaysStuck]_vars

\* the master waits for a dead follower while another follower, whose block
\* it holds, waits for the scatter
C8_Witness ==
    /\ StuckMaster
    /\ \E f \in Followers : pc[f] = "shuffle_recv" /\ Received(f) = Len(preH[f])

-----------------------------------------------------------------------------
(* C9 *)

\* ids of the rows of the global population
PopulationIds == {InitialTheta(w)[i][1] : w \in Ranks, i \in 1..particles_per_worker}

\* the places a row is held at
Owners(id) ==
    {wi \in Ranks \X (1..n_particles) :
        wi[2] \in DOMAIN theta[wi[1]] /\ theta[wi[1]][wi[2]][1] = id}

\* C9 (as claimed): in every state, each row of the population is in the
\* particle set of exactly one process.
C9_ExclusiveOwnership ==
    (Divisible /\ \A w \in Ranks : pc[w] # "new") =>
        \A id \in PopulationIds : Cardinality(Owners(id)) = 1

-----------------------------------------------------------------------------
(* C10 *)

\* C10 (as claimed): update_particles raises whenever the gradient matrix
\* has not the shape of the flat particle matrix, and then leaves the rows
\* and the iteration counter as they were.
C10_ShapeError ==
    \A w \in Ranks :
        (grads_shape # <<0, 0>> /\ grads_shape # FlatShape(theta[w])) =>
            /\ err[w] = "ValueError"
            /\ n_iters[w] = k[w]
            /\ \A i \in DOMAIN theta[w] : theta[w][i][2] = k[w]

-----------------------------------------------------------------------------
(* C11 *)

\* process w holds the rows its constructor gave it
JustConstructed(w) == pc[w] = "idle" /\ k[w] = 0

\* rows [r*N/W, (r+1)*N/W) of the supplied set, r counted from 0
SuppliedRows(r) ==
    [i \in 1..(n_particles \div n_workers) |->
        GlobalTheta[r * (n_particles \div n_workers) + i]]

\* the first call of the program is a merge and the master has merged
FirstMergeDone ==
    /\ prog[1] \in {"merge", "fpd"}
    /\ Len(mergedH) >= 1

\* C11: with a divisible particle count every process is constructed with
\* n_particles / n_workers rows; from a supplied set, rank r gets the rows
\* [r*N/W, (r+1)*N/W), so the slices are disjoint and together are the
\* supplied set; a merge right after construction gives n_particles rows.
C11_Construction ==
    Divisible =>
        /\ \A w \in Ranks : JustConstructed(w) =>
              /\ Len(theta[w]) * n_workers = n_particles
              /\ theta_given => theta[w] = SuppliedRows(w)
        /\ (theta_given /\ \A w \in Ranks : JustConstructed(w)) =>
              /\ AllRows(theta) = GlobalTheta
              /\ \A v, w \in Ranks :
                    v # w => Range(theta[v]) \cap Range(theta[w]) = {}
        /\ FirstMergeDone => Len(mergedH[1]) = n_particles

\* two processes built from a supplied set of four rows, merged at once
C11_Witness ==
    /\ theta_given
    /\ n_particles = 4
    /\ n_workers = 2
    /\ FirstMergeDone
    /\ theta[1] = SuppliedRows(1)
    /\ Len(mergedH[1]) = 4

-----------------------------------------------------------------------------
(* C12 *)

\* the step strategy has been handed a perturbation
PhiHanded == phi # NoPhi

\* C12: the perturbation handed to gd.update is phi times min(1, 10/||phi||):
\* its norm is at most 10 whatever the norm of phi, it is exactly 10 when
\* ||phi|| > 10, and phi goes through unscaled when ||phi|| <= 10.
C12_ClippedNorm ==
    PhiHanded =>
        /\ phi.num <= clip_norm * phi.den
        /\ phi.raw <= clip_norm => phi.num = phi.raw * phi.den
        /\ phi.raw > clip_norm => phi.num = clip_norm * phi.den

\* a perturbation a hundred times too long was cut down to norm 10
C12_Witness ==
    /\ PhiHanded
    /\ phi.raw = clip_norm * clip_norm * clip_norm
    /\ phi.num = clip_norm * phi.den
    /\ \E w \in Ranks : n_iters[w] > 0 /\ err[w] = "none"

-----------------------------------------------------------------------------
(* C13 *)

\* this step is a train_on_batch call of process w (its local update included)
TrainStep(w) ==
    /\ pc[w] = "idle"
    /\ k[w] < Len(prog)
    /\ CurrentOp(w) = "train"
    /\ pc'[w] # pc[w] \/ k'[w] # k[w]

\* a message is a block of particle rows <<id, age>>, nothing else
IsBlock(m) ==
    /\ Len(m) = particles_per_worker
    /\ \A i \in DOMAIN m :
          /\ Len(m[i]) = Len(<<0, 0>>)
          /\ m[i][1] \in 1..(n_particles + n_particles)
          /\ m[i][2] \in 0..Len(prog)

MessagesAreBlocks ==
    \A f \in Followers :
        /\ \A i \in DOMAIN up[f] : IsBlock(up[f][i])
        /\ \A i \in DOMAIN down[f] : IsBlock(down[f][i])

CounterSteps ==
    \A w \in Ranks :
        /\ TrainStep(w) => n_iters'[w] = n_iters[w] + 1
        /\ ~TrainStep(w) => n_iters'[w] = n_iters[w]

\* C13: the iteration counter of a process advances by exactly one in each
\* update of that process and in no other step: merge, shuffle and
\* function_posterior_distribution, of this or of any other process, leave
\* it alone; and every message is a block of particle rows, so the step
\* strategy's state is never sent.
C13_StepStateLocal == []MessagesAreBlocks /\ [][CounterSteps]_vars

\* three processes have each trained once, shuffled, and then merged
C13_Witness ==
    /\ n_workers > Len(<<0, 0>>)
    /\ prog = <<"train", "merge">>
    /\ \A w \in Ranks :
          /\ k[w] = Len(prog)
          /\ n_iters[w] = 1
          /\ ShufflesDone(w) = 1

-----------------------------------------------------------------------------
(* C14 *)

\* every call of the program is train_on_batch
TrainOnly == \A c \in DOMAIN prog : prog[c] = "train"

\* the ranks of the largest run explored
WorkerIds == UNION {0..(c[2] - 1) : c \in Configs}

\* process w is inside the shuffle of a run of train_on_batch calls
Shuffling(w) ==
    /\ w \in Ranks
    /\ Divisible
    /\ TrainOnly
    /\ InShuffle(w)

\* process w is back from its call
Training(w) == w \in Ranks /\ pc[w] = "idle"

\* C14: with a divisible particle count, no crash, and the same train_on_batch
\* calls and shuffle period in every process, a process that enters shuffle()
\* eventually returns from it.
C14_ShuffleTerminates == \A w \in WorkerIds : Shuffling(w) ~> Training(w)

\* three processes have each come back from two shuffles
C14_Witness ==
    /\ TrainOnly
    /\ Divisible
    /\ n_workers > Len(<<0, 0>>)
    /\ \A w \in Ranks : Training(w) /\ ShufflesDone(w) > 1

-----------------------------------------------------------------------------
(* C15 *)

\* C15 (as claimed): over any sequence of collectives, each merge round of
\* the master takes exactly one block from each follower, the block that
\* follower sent for the same round: the master never holds more blocks of a
\* follower than rounds it has started, it holds one per finished round, and
\* the matrix of round j is made of the rows the processes flattened for
\* round j.
C15_OneBlockPerRound ==
    /\ \A f \in Followers :
          /\ Received(f) <= Len(preH[0])
          /\ Received(f) >= Len(mergedH)
    /\ \A j \in 1..Len(mergedH) :
          (\A w \in Ranks : Len(preH[w]) >= j) =>
              SameRows(mergedH[j], AllRows([w \in Ranks |-> preH[w][j].rows]))

-----------------------------------------------------------------------------
(* C16 *)

\* the master's latest collective is a shuffle whose assignment is drawn
AssignDrawn ==
    /\ Len(preH[0]) >= 1
    /\ IsShuffle(0, Len(preH[0]))
    /\ \/ pc[0] = "scatter"
       \/ pc[0] = "idle" /\ RoundDone(0, Len(preH[0]))

\* the block follower f was sent, or holds, for its j-th collective
BlockOf(f, j) == IF down[f] # <<>> THEN Head(down[f]) ELSE postH[f][j]

\* C16: in a shuffle the master's assignment splits the row indices
\* 0..n_particles-1 into n_workers blocks of n_particles / n_workers indices
\* each, pairwise disjoint and covering all indices; the master keeps the
\* rows of block 0 and sends follower i the rows of block i, one block to
\* each follower.
C16_AssignPartition ==
    AssignDrawn =>
        LET j == Len(preH[0]) IN
        /\ DOMAIN assign = Ranks
        /\ \A r \in Ranks : Len(assign[r]) * n_workers = n_particles
        /\ \A r, q \in Ranks :
              r # q => Range(assign[r]) \cap Range(assign[q]) = {}
        /\ UNION {Range(assign[r]) : r \in Ranks} = 0..(n_particles - 1)
        /\ RoundDone(0, j) => postH[0][j] = Take(theta_array, assign[0])
        /\ \A f \in Followers :
              IF RoundDone(0, j) \/ loop_i > f
              THEN BlockOf(f, j) = Take(theta_array, assign[f])
              ELSE down[f] = <<>> /\ ~RoundDone(f, j)

\* the master has sent both followers their blocks and still holds its old
\* rows; the permutation drawn gives follower 1 the master's row
C16_Witness ==
    /\ AssignDrawn
    /\ pc[0] = "scatter"
    /\ n_workers > Len(<<0, 0>>)
    /\ ScatterLoopDone(loop_i)
    /\ assign[1][1] = 0

-----------------------------------------------------------------------------
(* C17 *)

\* process w is constructed and its current call is merge() or
\* function_posterior_distribution()
InMergeCall(w) ==
    /\ pc[w] # "new"
    /\ k[w] < Len(prog)
    /\ CurrentOp(w) \in {"merge", "fpd"}

\* the last call process w returned from is merge() or
\* function_posterior_distribution()
BackFromMerge(w) ==
    /\ pc[w] = "idle"
    /\ k[w] > 0
    /\ prog[k[w]] \in {"merge", "fpd"}

MergeKeepsRows ==
    \A w \in Ranks : InMergeCall(w) => theta'[w] = theta[w]

MergeResult ==
    /\ \A f \in Followers : BackFromMerge(f) => ret[f] = None
    /\ \A w \in Ranks : \A j \in 1..Len(postH[w]) :
          ~IsShuffle(w, j) => postH[w][j] = preH[w][j].rows

\* C17: no step taken while a process is in a direct merge() or
\* function_posterior_distribution() call changes that process's rows, on
\* the master and on followers alike: each holds after the call the rows it
\* held before; and a follower gets None back.
C17_MergeReadOnly == []MergeResult /\ [][MergeKeepsRows]_vars

\* the master is back from merge() with the merged dictionary, the follower
\* with nothing, both after one update of their rows
C17_Witness ==
    /\ \A w \in Ranks : BackFromMerge(w) /\ n_iters[w] = 1
    /\ n_workers > 1
    /\ ret[0] = Dict(mergedH[Len(mergedH)])
    /\ ret[1] = None
    /\ theta[1] = preH[1][Len(preH[1])].rows

-----------------------------------------------------------------------------
(* C18 *)

\* some process is back from collective j, a shuffle
BackFromShuffle(j) == \E v \in Ranks : RoundDone(v, j) /\ IsShuffle(v, j)

\* every process has finished the training step that starts collective j
AllEntered(j) == \A w \in Ranks : Len(preH[w]) >= j

\* nobody is back from a shuffle before everybody has entered it
Barrier == \A j \in 1..Len(prog) : BackFromShuffle(j) => AllEntered(j)

\* C18 (as claimed): no process is back from its j-th shuffle (and so none
\* starts the next training step) before every process has finished the
\* training step that triggers it, and the rows shuffle j hands out are the
\* rows the processes held when they entered it, all after the same number
\* of training steps.
C18_ShuffleBarrier ==
    /\ Barrier
    /\ \A j \in 1..Len(mergedH) :
          (IsShuffle(0, j) /\ AllEntered(j)) =>
              /\ SameRows(mergedH[j], AllRows([w \in Ranks |-> preH[w][j].rows]))
              /\ \A a, b \in DOMAIN mergedH[j] :
                    mergedH[j][a][2] = mergedH[j][b][2]

-----------------------------------------------------------------------------
(* C19 *)

RECURSIVE ReceivedUpTo(_)
\* blocks the master has received from followers 1..n
ReceivedUpTo(n) == IF n < 1 THEN 0 ELSE ReceivedUpTo(n - 1) + Received(n)

\* collective j is over: a shuffle every process is back from, or a merge
\* every follower sent its block for and the master is back from
Completed(j) ==
    /\ RoundDone(0, j)
    /\ AllEntered(j)
    /\ IsShuffle(0, j) => \A w \in Ranks : RoundDone(w, j)

\* every process has returned from every call of the program
AllReturned == \A w \in Ranks : pc[w] = "idle" /\ k[w] = Len(prog)

\* C19 (as claimed): once a collective is over, none of its messages is
\* still in flight or unreceived: the master holds every follower's block
\* for it and a block on its way down is one of a later shuffle; when all
\* calls have returned the channels are empty; and the rounds of a master
\* outside its merge loop have each taken n_workers - 1 blocks, a shuffle
\* sending one block to each follower in return.
C19_Quiescence ==
    /\ \A j \in 1..Len(prog) :
          Completed(j) =>
              \A f \in Followers :
                  /\ Received(f) >= j
                  /\ down[f] # <<>> => Len(preH[0]) > j
    /\ AllReturned =>
          \A f \in Followers : up[f] = <<>> /\ down[f] = <<>>
    /\ pc[0] # "merge_recv" =>
          ReceivedUpTo(n_workers - 1) = (n_workers - 1) * Len(mergedH)
    /\ \A f \in Followers : SentDown(f) = ScatteredTo(f)

-----------------------------------------------------------------------------
(* C20 *)

\* C20: with a single process (no follower) the loops of merge and shuffle
\* have no iteration, so the master never waits for a receive and sends
\* nothing; merge and shuffle raise nothing; merge returns the master's own
\* n_particles rows; a shuffle leaves the master with a permutation of the
\* rows it held.
C20_SingleWorker ==
    n_workers = 1 =>
        /\ Followers = {}
        /\ loop_i <= 1
        /\ pc[0] = "merge_recv" => MergeLoopDone(loop_i)
        /\ pc[0] = "scatter" => ScatterLoopDone(loop_i)
        /\ pc[0] = "error" => CurrentOp(0) = "fpd"
        /\ \A j \in 1..Len(mergedH) :
              /\ mergedH[j] = preH[0][j].rows
              /\ Len(mergedH[j]) = n_particles
        /\ (BackFromMerge(0) /\ prog[k[0]] = "merge") =>
              ret[0] = Dict(theta[0])
        /\ \A j \in 1..Len(postH[0]) :
              IsShuffle(0, j) =>
                  /\ SameRows(postH[0][j], preH[0][j].rows)
                  /\ Len(postH[0][j]) = n_particles

\* a single process has shuffled its two rows into the other order and then
\* merged them
C20_Witness ==
    /\ n_workers = 1
    /\ prog = <<"train", "merge">>
    /\ k[0] = Len(prog)
    /\ pc[0] = "idle"
    /\ IsShuffle(0, 1)
    /\ postH[0][1] # preH[0][1].rows
    /\ ret[0] = Dict(theta[0])

====
